---- MODULE Spec2Model ----
(***************************************************************************)
(* A model of src/frontend/Front.js: the browser client of the document    *)
(* service.  The page runs on one event loop, so every action below is one *)
(* task of that loop: an event listener or a continuation of an async      *)
(* function, from the point it is resumed to the next await of a network   *)
(* response or of a timer.                                                 *)
(***************************************************************************)
EXTENDS Integers, Sequences, FiniteSets, TLC

VARIABLES
    accessToken,      \* Front.js:6   let accessToken
    storedToken,      \* localStorage 'access_token'
    currentUser,      \* Front.js:4   let currentUser
    userVia,          \* history: the credential of the request that populated currentUser
    page,             \* which of loginPage / signupPage / dashboard is displayed
    loginBtnDisabled, \* the login form's submit button, disabled attribute
    documents,        \* Front.js:5   let documents
    view,             \* what renderDocuments last put into documentsGrid
    viewSrc,          \* history: the request whose response was rendered last (0: none)
    modal,            \* the document shown in documentModal, Null when it is closed
    saved,            \* history: the documents handed to the browser as downloads
    reqs,             \* every request issued so far, in order, in flight or how it ended
    alerts,           \* every alert() shown so far, in order
    batches,          \* the calls of handleFileUpload, running or finished
    fileInputValue,   \* fileInput.value
    inputValue,       \* searchInput.value
    searchTimeout,    \* Front.js:362 let searchTimeout (0: undefined)
    timers,           \* pending setTimeout timers of the search input: id -> ms left
    sinceInput,       \* history: ms since the last input event, saturating
    runs,             \* history: runs of input events closer than the debounce window
    decisions,        \* history: the settled values the debounce callback acted on
    dispatchSeq,      \* history: number of semantic searches dispatched
    nEvents,          \* history: the user events so far, by kind
    filterSel,        \* the values of categoryFilter, authorFilter and dateFilter
    now,              \* the clock new Date() reads, in hours
    filterRun,        \* history: the last call of filterDocuments (<< >>: none yet)
    signupBtnDisabled,\* the signup form's submit button, disabled attribute
    unhandled,        \* history: the handlers that ended in an unhandled rejection
    progressBarShown, \* progressBar.style.display is 'block'
    progressFill,     \* progressFill.style.width, in percent
    intervals,        \* the active setInterval timers of uploadSingleFile
    hideTimers        \* the pending setTimeout timers of uploadSingleFile

sessionVars == <<accessToken, storedToken, currentUser, userVia, page, loginBtnDisabled>>
docVars     == <<documents, view, viewSrc, modal, saved>>
uploadVars  == <<batches, fileInputValue>>
searchVars  == <<inputValue, searchTimeout, timers, sinceInput, runs, decisions, dispatchSeq>>
filterVars  == <<filterSel, now, filterRun>>
formVars    == <<signupBtnDisabled, unhandled>>
progressVars == <<progressBarShown, progressFill, intervals, hideTimers>>
vars == <<sessionVars, docVars, uploadVars, searchVars, reqs, alerts, nEvents,
          filterVars, formVars, progressVars>>

----------------------------------------------------------------------------
(* Bounds of the model. *)

\* submits of the login and signup forms in one behaviour
MaxSubmits == 2
\* clicks on rendered documents in one behaviour
MaxClicks == 2
\* input events of the search field in one behaviour
MaxInputs == 3
\* drops and file selections in one behaviour
MaxBatches == 2
\* files dropped or selected in one behaviour, over all its batches
MaxFiles == 3
\* the step of the clock, in ms
TickMs == 250
\* the step of the clock that new Date() reads, in hours
ClockStep == 12
\* the hours that clock advances in one behaviour
MaxHours == 24

----------------------------------------------------------------------------
(* Values. *)

\* JavaScript null / undefined
Null == "<null>"

\* currentUser is << >> when it is null, and <<userData>> otherwise
NoUser == << >>

\* the token found in localStorage at page load, and the one /token issues
StoredTok == "tokA"
IssuedTok == "tokB"
Tokens == {StoredTok, IssuedTok}

\* Front.js:365-372 setTimeout(..., 500)
DEBOUNCE_MS == 500

\* Front.js:293
allowedTypes ==
    {"application/pdf",
     "application/vnd.openxmlformats-officedocument.wordprocessingml.document",
     "text/plain"}

\* the media types of the files a user drops in this model
FileTypes == {"application/pdf", "image/png"}

\* document lists the backend answers with (documents are their ids)
DocLists == {<< >>, <<1>>, <<2, 1>>}

\* the profile the backend answers /users/me with
UserData == [username |-> "admin", role |-> "Admin"]

\* how a response ends: a success status, 401, another non-success status whose
\* JSON body has a detail, has none, or is not JSON, and a rejected fetch
Outcomes == {"ok", "401", "detail", "nodetail", "badjson", "neterr"}

\* the detail of a JSON error body that has one
DetailOf(o) == IF o = "401" THEN "Could not validate credentials" ELSE "Bad request"

\* `${x}` in a template literal
TemplateStr(x) == IF x = Null THEN "null" ELSE x

NoAuth == << >>
BearerOf(t) == <<"Bearer", t>>

\* the hour the clock reads when the page is loaded
NowStart == 3010

\* the three filter selects with their first option selected, value ''
NoFilter == [category |-> << >>, author |-> << >>, date |-> ""]

\* the progress elements as the page loads them, and no timer of uploadSingleFile
NoProgress == [shown |-> FALSE, fill |-> 0, intervals |-> {}, hideTimers |-> {}]

----------------------------------------------------------------------------
(* The backend, as far as the client depends on it: a request that carries  *)
(* no issued token is never answered with a success status.                *)

Authenticated(r) == r.auth \in {BearerOf(t) : t \in Tokens}

OutcomesFor(r) ==
    IF r.op \in {"token", "signup"} \/ Authenticated(r) THEN Outcomes ELSE Outcomes \ {"ok"}

----------------------------------------------------------------------------
(* Requests. *)

Req(op, auth, b, k, q) ==
    [op |-> op, auth |-> auth, b |-> b, k |-> k, q |-> q, st |-> "inflight"]

\* Front.js:15-17: apiCall attaches the token if there is one
ApiAuth(tok) == IF tok # Null THEN BearerOf(tok) ELSE NoAuth

\* Front.js:333-335, 466-468: uploadSingleFile and downloadDocument build the header
RawAuth(tok) == BearerOf(TemplateStr(tok))

InFlight(r) == r \in 1..Len(reqs) /\ reqs[r].st = "inflight"

\* what is kept of how a request ended: the outcome of an upload
ResultOf(op, o) == IF op = "upload" THEN o ELSE "done"

\* the request answered
Answered(rs, r, o) == [rs EXCEPT ![r].st = ResultOf(rs[r].op, o)]

----------------------------------------------------------------------------
Init ==
    /\ storedToken \in {Null, StoredTok}
    /\ accessToken = storedToken
    /\ currentUser = NoUser
    /\ userVia = NoAuth
    /\ page = "loading"
    /\ loginBtnDisabled = FALSE
    /\ documents = << >>
    /\ view = << >>
    /\ viewSrc = 0
    /\ modal = Null
    /\ saved = << >>
    /\ reqs = << >>
    /\ alerts = << >>
    /\ batches = << >>
    /\ fileInputValue = ""
    /\ inputValue = << >>
    /\ searchTimeout = 0
    /\ timers = {}
    /\ sinceInput = DEBOUNCE_MS
    /\ runs = 0
    /\ decisions = << >>
    /\ dispatchSeq = 0
    /\ nEvents = [submit |-> 0, click |-> 0, input |-> 0, drop |-> 0]
    /\ filterSel = NoFilter
    /\ now = NowStart
    /\ filterRun = << >>
    /\ signupBtnDisabled = FALSE
    /\ unhandled = << >>
    /\ progressBarShown = NoProgress.shown
    /\ progressFill = NoProgress.fill
    /\ intervals = NoProgress.intervals
    /\ hideTimers = NoProgress.hideTimers

----------------------------------------------------------------------------
(* Session. *)

\* clearSession without Front.js:71: the token stays in localStorage
clearSessionKeepStored ==
    /\ currentUser' = NoUser
    /\ userVia' = NoAuth
    /\ accessToken' = Null
    /\ storedToken' = storedToken
    /\ documents' = << >>

\* Front.js:69-72: the assignments of logout()
clearSession ==
    /\ currentUser' = NoUser
    /\ userVia' = NoAuth
    /\ accessToken' = Null
    /\ storedToken' = Null
    /\ documents' = << >>

\* Front.js:48-52
showLogin == page' = "login"

\* Front.js:68-74
logout == clearSession /\ showLogin

\* Front.js:60-66: the two requests showDashboard starts, loadDocuments() first
ShowDashboardReqs(tok) ==
    << Req("documents", ApiAuth(tok), 0, 0, << >>),
       Req("userinfo", ApiAuth(tok), 0, 0, << >>) >>

\* Front.js:119-124: the finally block of the login handler reads originalText,
\* a const of the try block, which is out of scope there: the assignment of
\* textContent throws a ReferenceError and disabled = false is never reached.
LoginFinally(disabled) == disabled

\* Front.js:122, 175: the ReferenceError leaves the async listener, whose promise
\* nothing handles
FinallyThrows(handler) == Append(unhandled, <<handler, "ReferenceError">>)

\* Front.js:503-510
DOMContentLoaded ==
    /\ page = "loading"
    /\ IF accessToken # Null
         THEN /\ page' = "dashboard"
              /\ reqs' = reqs \o ShowDashboardReqs(accessToken)
         ELSE /\ showLogin
              /\ UNCHANGED reqs
    /\ UNCHANGED <<accessToken, storedToken, currentUser, userVia, loginBtnDisabled,
                   docVars, uploadVars, searchVars, alerts, nEvents>>
    /\ UNCHANGED <<filterVars, formVars, progressVars>>

\* Front.js:77-102: the submit listener of the login form, up to its await of fetch
LoginSubmit(username, password) ==
    /\ page = "login"
    /\ ~loginBtnDisabled
    /\ nEvents.submit < MaxSubmits
    /\ nEvents' = [nEvents EXCEPT !.submit = @ + 1]
    /\ IF username = "" \/ password = ""
         THEN /\ alerts' = Append(alerts, <<"Please enter username and password">>)
              /\ UNCHANGED <<reqs, loginBtnDisabled>>
         ELSE /\ loginBtnDisabled' = TRUE
              /\ reqs' = Append(reqs, Req("token", NoAuth, 0, 0, << >>))
              /\ UNCHANGED alerts
    /\ UNCHANGED <<accessToken, storedToken, currentUser, userVia, page,
                   docVars, uploadVars, searchVars>>
    /\ UNCHANGED <<filterVars, formVars, progressVars>>

\* TokenResponse without localStorage.setItem, Front.js:106
TokenResponseNotStored(r, o) ==
    /\ InFlight(r)
    /\ reqs[r].op = "token"
    /\ o \in OutcomesFor(reqs[r])
    /\ IF o = "ok"
         THEN /\ accessToken' = IssuedTok
              /\ storedToken' = storedToken
              \* await loadUserInfo(): the handler stays suspended
              /\ reqs' = Append(Answered(reqs, r, o),
                                Req("userinfo", ApiAuth(IssuedTok), 0, 1, << >>))
              /\ UNCHANGED <<alerts, loginBtnDisabled, unhandled>>
         ELSE /\ alerts' = Append(alerts,
                    CASE o \in {"401", "detail"} -> <<DetailOf(o)>>
                      [] o = "nodetail" -> <<"Login failed">>
                      [] OTHER -> <<"Login failed. Please check your connection and try again.">>)
              /\ loginBtnDisabled' = LoginFinally(loginBtnDisabled)
              /\ unhandled' = FinallyThrows("loginForm")
              /\ reqs' = Answered(reqs, r, o)
              /\ UNCHANGED <<accessToken, storedToken>>
    /\ UNCHANGED <<currentUser, userVia, page, docVars, uploadVars, searchVars, nEvents>>
    /\ UNCHANGED <<filterVars, signupBtnDisabled, progressVars>>

\* Front.js:104-124: the login handler resumed with the response of /token
TokenResponse(r, o) ==
    /\ InFlight(r)
    /\ reqs[r].op = "token"
    /\ o \in OutcomesFor(reqs[r])
    /\ IF o = "ok"
         THEN /\ accessToken' = IssuedTok
              /\ storedToken' = IssuedTok
              \* await loadUserInfo(): the handler stays suspended
              /\ reqs' = Append(Answered(reqs, r, o),
                                Req("userinfo", ApiAuth(IssuedTok), 0, 1, << >>))
              /\ UNCHANGED <<alerts, loginBtnDisabled, unhandled>>
         ELSE /\ alerts' = Append(alerts,
                    CASE o \in {"401", "detail"} -> <<DetailOf(o)>>
                      [] o = "nodetail" -> <<"Login failed">>
                      [] OTHER -> <<"Login failed. Please check your connection and try again.">>)
              /\ loginBtnDisabled' = LoginFinally(loginBtnDisabled)
              /\ unhandled' = FinallyThrows("loginForm")
              /\ reqs' = Answered(reqs, r, o)
              /\ UNCHANGED <<accessToken, storedToken>>
    /\ UNCHANGED <<currentUser, userVia, page, docVars, uploadVars, searchVars, nEvents>>
    /\ UNCHANGED <<filterVars, signupBtnDisabled, progressVars>>

\* Front.js:181-192 resumed with the response of /users/me (through apiCall,
\* Front.js:28-44); when the login handler awaited it (k = 1), Front.js:111-124 follow
UserInfoResponse(r, o) ==
    /\ InFlight(r)
    /\ reqs[r].op = "userinfo"
    /\ o \in OutcomesFor(reqs[r])
    /\ CASE o = "ok" ->
              /\ currentUser' = <<UserData>>
              /\ userVia' = reqs[r].auth
              /\ UNCHANGED <<accessToken, storedToken, documents>>
         [] o = "401" -> clearSession
         [] OTHER -> UNCHANGED <<currentUser, userVia, accessToken, storedToken, documents>>
    /\ IF reqs[r].k = 1
         THEN /\ page' = "dashboard"
              /\ reqs' = Answered(reqs, r, o) \o ShowDashboardReqs(accessToken')
              /\ loginBtnDisabled' = LoginFinally(loginBtnDisabled)
              /\ unhandled' = FinallyThrows("loginForm")
         ELSE /\ IF o = "401" THEN showLogin ELSE UNCHANGED page
              /\ reqs' = Answered(reqs, r, o)
              /\ UNCHANGED <<loginBtnDisabled, unhandled>>
    /\ UNCHANGED <<view, viewSrc, modal, saved, uploadVars, searchVars, alerts, nEvents>>
    /\ UNCHANGED <<filterVars, signupBtnDisabled, progressVars>>

\* Front.js:247-259: updateFilters writes the options of categoryFilter and of
\* authorFilter anew, which selects the first option of each, value ''
updateFilters(sel) == [sel EXCEPT !.category = << >>, !.author = << >>]

\* Front.js:195-205 resumed with the response of /documents/
DocumentsResponse(r, o) ==
    /\ InFlight(r)
    /\ reqs[r].op = "documents"
    /\ o \in OutcomesFor(reqs[r])
    /\ reqs' = Answered(reqs, r, o)
    /\ filterSel' = IF o = "ok" THEN updateFilters(filterSel) ELSE filterSel
    /\ UNCHANGED <<now, filterRun, formVars, progressVars>>
    /\ IF o = "ok"
         THEN /\ \E d \in DocLists :
                    /\ documents' = d
                    /\ view' = d
              /\ viewSrc' = r
              /\ UNCHANGED <<currentUser, userVia, accessToken, storedToken, page, alerts>>
         ELSE /\ IF o = "401"
                   THEN logout
                   ELSE UNCHANGED <<currentUser, userVia, accessToken, storedToken,
                                    documents, page>>
              /\ alerts' = Append(alerts,
                                  <<"Failed to load documents. Please refresh the page.">>)
              /\ UNCHANGED <<view, viewSrc>>
    /\ UNCHANGED <<loginBtnDisabled, modal, saved, uploadVars, searchVars, nEvents>>

\* the dashboard's logout control, which calls logout(), Front.js:68-74
LogoutClick ==
    /\ page = "dashboard"
    /\ logout
    /\ UNCHANGED <<loginBtnDisabled, view, viewSrc, modal, saved, uploadVars, searchVars,
                   reqs, alerts, nEvents>>
    /\ UNCHANGED <<filterVars, formVars, progressVars>>

----------------------------------------------------------------------------
(* Signup. *)

\* Front.js:54-58
showSignup == page' = "signup"

\* the link of the login page that calls showSignup(), Front.js:54-58
ShowSignupClick ==
    /\ page = "login"
    /\ showSignup
    /\ UNCHANGED <<accessToken, storedToken, currentUser, userVia, loginBtnDisabled,
                   docVars, uploadVars, searchVars, reqs, alerts, nEvents>>
    /\ UNCHANGED <<filterVars, formVars, progressVars>>

\* the link of the signup page that calls showLogin(), Front.js:48-52
ShowLoginClick ==
    /\ page = "signup"
    /\ showLogin
    /\ UNCHANGED <<accessToken, storedToken, currentUser, userVia, loginBtnDisabled,
                   docVars, uploadVars, searchVars, reqs, alerts, nEvents>>
    /\ UNCHANGED <<filterVars, formVars, progressVars>>

\* Front.js:172-177: the finally block of the signup handler, which reads the
\* originalText of the try block as that of the login handler does
SignupFinally(disabled) == disabled

\* SignupSubmit without the test of Front.js:137-140
SignupSubmitConfirmUnchecked(username, email, role, password, confirmPassword) ==
    /\ page = "signup"
    /\ ~signupBtnDisabled
    /\ nEvents.submit < MaxSubmits
    /\ nEvents' = [nEvents EXCEPT !.submit = @ + 1]
    /\ IF username = "" \/ email = "" \/ role = "" \/ password = ""
         THEN /\ alerts' = Append(alerts, <<"Please fill in all fields">>)
              /\ UNCHANGED <<reqs, signupBtnDisabled>>
         ELSE /\ signupBtnDisabled' = TRUE
              /\ reqs' = Append(reqs, Req("signup", ApiAuth(accessToken), 0, 0, << >>))
              /\ UNCHANGED alerts
    /\ UNCHANGED <<sessionVars, docVars, uploadVars, searchVars, filterVars, unhandled,
                   progressVars>>

\* Front.js:128-161: the submit listener of the signup form, up to the await of
\* fetch in apiCall
SignupSubmit(username, email, role, password, confirmPassword) ==
    /\ page = "signup"
    /\ ~signupBtnDisabled
    /\ nEvents.submit < MaxSubmits
    /\ nEvents' = [nEvents EXCEPT !.submit = @ + 1]
    /\ IF password # confirmPassword
         THEN /\ alerts' = Append(alerts, <<"Passwords do not match">>)
              /\ UNCHANGED <<reqs, signupBtnDisabled>>
         ELSE IF username = "" \/ email = "" \/ role = "" \/ password = ""
         THEN /\ alerts' = Append(alerts, <<"Please fill in all fields">>)
              /\ UNCHANGED <<reqs, signupBtnDisabled>>
         ELSE /\ signupBtnDisabled' = TRUE
              /\ reqs' = Append(reqs, Req("signup", ApiAuth(accessToken), 0, 0, << >>))
              /\ UNCHANGED alerts
    /\ UNCHANGED <<sessionVars, docVars, uploadVars, searchVars, filterVars, unhandled,
                   progressVars>>

\* ApiErrorMessage without the fallback of Front.js:36: a body that is not JSON
\* lets the rejection of response.json() leave apiCall
ApiErrorMessageNoFallback(o) ==
    CASE o = "401"      -> "Session expired. Please login again."
      [] o = "detail"   -> DetailOf(o)
      [] o = "nodetail" -> "HTTP 500"
      [] o = "badjson"  -> "Unexpected token < in JSON at position 0"
      [] OTHER          -> "Failed to fetch"

\* Front.js:30-38: the message of the Error apiCall throws for a non-success status
ApiErrorMessage(o) ==
    CASE o = "401"      -> "Session expired. Please login again."
      [] o = "detail"   -> DetailOf(o)
      [] o = "nodetail" -> "HTTP 500"
      [] o = "badjson"  -> "Request failed"
      [] OTHER          -> "Failed to fetch"

\* Front.js:163-177 resumed with what apiCall (Front.js:28-44) makes of the
\* response of POST /users/
SignupResponse(r, o) ==
    /\ InFlight(r)
    /\ reqs[r].op = "signup"
    /\ o \in OutcomesFor(reqs[r])
    /\ reqs' = Answered(reqs, r, o)
    /\ CASE o = "ok" ->
              /\ alerts' = Append(alerts, <<"Account created successfully! Please login.">>)
              /\ showLogin
              /\ UNCHANGED <<currentUser, userVia, accessToken, storedToken, documents>>
         [] o = "401" ->
              /\ logout
              /\ alerts' = Append(alerts, <<ApiErrorMessage(o)>>)
         [] OTHER ->
              /\ alerts' = Append(alerts, <<ApiErrorMessage(o)>>)
              /\ UNCHANGED <<currentUser, userVia, accessToken, storedToken, documents, page>>
    /\ signupBtnDisabled' = SignupFinally(signupBtnDisabled)
    /\ unhandled' = FinallyThrows("signupForm")
    /\ UNCHANGED <<loginBtnDisabled, view, viewSrc, modal, saved, uploadVars, searchVars,
                   nEvents, filterVars, progressVars>>

----------------------------------------------------------------------------
(* Upload. *)

\* the name of file k of the b-th batch: every file has its own
FileName(b, k) == "f" \o ToString(b) \o "_" \o ToString(k)

\* the batches a user can drop or select: sequences of media types
FileLists == UNION {[1..n -> FileTypes] : n \in 0..MaxFiles}

\* Front.js:296
IsAllowed(file) == file.type \in allowedTypes

\* Front.js:297
RejectAlert(file) ==
    <<"File is not supported. Please upload PDF, DOCX, or TXT files only.", file.name>>

\* SkipRejected with break in the place of Front.js:298's continue: the first
\* rejected file ends the loop
SkipRejectedBreak(files, i) ==
    IF i > Len(files) \/ IsAllowed(files[i])
      THEN [next |-> i, shown |-> << >>]
      ELSE [next |-> Len(files) + 1, shown |-> <<RejectAlert(files[i])>>]

\* Front.js:295-299: the loop of handleFileUpload from file i on, up to the first
\* file it does not reject: the index of that file (Len(files) + 1 when there is
\* none) and the alerts shown on the way
RECURSIVE SkipRejected(_, _)
SkipRejected(files, i) ==
    IF i > Len(files) \/ IsAllowed(files[i])
      THEN [next |-> i, shown |-> << >>]
      ELSE LET rest == SkipRejected(files, i + 1)
           IN  [next |-> rest.next, shown |-> <<RejectAlert(files[i])>> \o rest.shown]

\* Front.js:350-357: the message of the error uploadSingleFile throws
UploadErrorMessage(o) ==
    CASE o \in {"401", "detail"} -> DetailOf(o)
      [] o = "nodetail" -> "Upload failed"
      [] o = "badjson"  -> "Unexpected token < in JSON at position 0"
      [] OTHER          -> "Failed to fetch"

\* Front.js:305
UploadFailedAlert(file, o) == <<"Failed to upload", file.name, UploadErrorMessage(o)>>

\* the progress elements and the timers of uploadSingleFile, as one value
Progress ==
    [shown |-> progressBarShown, fill |-> progressFill,
     intervals |-> intervals, hideTimers |-> hideTimers]

SetProgress(pg) ==
    /\ progressBarShown' = pg.shown
    /\ progressFill' = pg.fill
    /\ intervals' = pg.intervals
    /\ hideTimers' = pg.hideTimers

\* Front.js:317-329: uploadSingleFile, up to its await of fetch, for the upload
\* that becomes request r: the bar is shown at 0% and the progress timer started
StartProgress(r, pg) ==
    [pg EXCEPT !.shown = TRUE, !.fill = 0,
               !.intervals = @ \cup {[r |-> r, progress |-> 0]}]

\* clearInterval(progressInterval), Front.js:339
ClearInterval(ivs, r) == {iv \in ivs : iv.r # r}

\* Front.js:339-358: uploadSingleFile resumed with the outcome of its fetch.  A
\* rejected fetch goes to the catch block at once, past clearInterval; a success
\* status leaves the bar at 100% and schedules its hiding; every other response
\* shows 100% and then throws into the catch block, which hides the bar.
EndProgress(r, o, pg) ==
    CASE o = "neterr" -> [pg EXCEPT !.shown = FALSE, !.fill = 0]
      [] o = "ok"     -> [pg EXCEPT !.intervals = ClearInterval(@, r), !.fill = 100,
                                    !.hideTimers = @ \cup {r}]
      [] OTHER        -> [pg EXCEPT !.intervals = ClearInterval(@, r),
                                    !.shown = FALSE, !.fill = 0]

\* RunBatch reloading the collection only when an upload of the batch succeeded
RunBatchReloadIfUploaded(b, i, rs, al, bs, fiv, pg) ==
    LET files == bs[b].files
        skip  == SkipRejected(files, i)
        some  == \E r \in 1..Len(rs) : rs[r].op = "upload" /\ rs[r].b = b /\ rs[r].st = "ok"
    IN  /\ alerts' = al \o skip.shown
        /\ IF skip.next <= Len(files)
             THEN /\ reqs' = Append(rs, Req("upload", RawAuth(accessToken), b, skip.next, << >>))
                  /\ batches' = [bs EXCEPT ![b].i = skip.next]
                  /\ fileInputValue' = fiv
                  /\ SetProgress(StartProgress(Len(rs) + 1, pg))
             ELSE /\ reqs' = IF some
                              THEN Append(rs, Req("documents", ApiAuth(accessToken), b, 0, << >>))
                              ELSE rs
                  /\ batches' = [bs EXCEPT ![b].i = skip.next, ![b].st = "done"]
                  /\ fileInputValue' = ""
                  /\ SetProgress(pg)

\* Front.js:295-313: handleFileUpload of batch b running on from file i, with rs,
\* al, bs, fiv and pg the requests, alerts, batches, file input value and
\* progress display as its caller leaves them: it stops at the await of the
\* next upload (Front.js:302, 331), or ends with loadDocuments() and the reset
\* of the file input
RunBatch(b, i, rs, al, bs, fiv, pg) ==
    LET files == bs[b].files
        skip  == SkipRejected(files, i)
    IN  /\ alerts' = al \o skip.shown
        /\ IF skip.next <= Len(files)
             THEN /\ reqs' = Append(rs, Req("upload", RawAuth(accessToken), b, skip.next, << >>))
                  /\ batches' = [bs EXCEPT ![b].i = skip.next]
                  /\ fileInputValue' = fiv
                  /\ SetProgress(StartProgress(Len(rs) + 1, pg))
             ELSE /\ reqs' = Append(rs, Req("documents", ApiAuth(accessToken), b, 0, << >>))
                  /\ batches' = [bs EXCEPT ![b].i = skip.next, ![b].st = "done"]
                  /\ fileInputValue' = ""
                  /\ SetProgress(pg)

RECURSIVE SumLen(_)
SumLen(bs) == IF bs = << >> THEN 0 ELSE Len(Head(bs).files) + SumLen(Tail(bs))

FilesSoFar == SumLen(batches)

\* Front.js:278-288, 290-302: a drop on the upload area, or a change of the file
\* input (picked), starts handleFileUpload
FilesSelected(types, picked) ==
    /\ page = "dashboard"
    /\ nEvents.drop < MaxBatches
    /\ FilesSoFar + Len(types) <= MaxFiles
    /\ IF Len(types) = 0
         THEN UNCHANGED <<reqs, alerts, batches, fileInputValue, nEvents, progressVars>>
         ELSE /\ nEvents' = [nEvents EXCEPT !.drop = @ + 1]
              /\ LET b == Len(batches) + 1
                     files == [k \in 1..Len(types) |->
                                  [name |-> FileName(b, k), type |-> types[k]]]
                     started == Append(batches, [files |-> files, i |-> 1, st |-> "running"])
                 IN  RunBatch(b, 1, reqs, alerts, started,
                              IF picked THEN "C:\\fakepath\\" \o FileName(b, 1)
                                        ELSE fileInputValue,
                              Progress)
    /\ UNCHANGED <<sessionVars, docVars, searchVars, filterVars, formVars>>

\* UploadResponse without the try and catch of Front.js:301-306: the error of a
\* failed upload leaves handleFileUpload
UploadResponseUncaught(r, o) ==
    /\ InFlight(r)
    /\ reqs[r].op = "upload"
    /\ o \in OutcomesFor(reqs[r])
    /\ IF o = "ok"
         THEN RunBatch(reqs[r].b, reqs[r].k + 1, Answered(reqs, r, o), alerts, batches,
                       fileInputValue, EndProgress(r, o, Progress))
         ELSE /\ reqs' = Answered(reqs, r, o)
              /\ batches' = [batches EXCEPT ![reqs[r].b].st = "done"]
              /\ SetProgress(EndProgress(r, o, Progress))
              /\ UNCHANGED <<alerts, fileInputValue>>
    /\ UNCHANGED <<sessionVars, docVars, searchVars, nEvents, filterVars, formVars>>

\* Front.js:339-358, 303-313: uploadSingleFile resumed with the response of its
\* POST /documents/, and handleFileUpload with its result
UploadResponse(r, o) ==
    /\ InFlight(r)
    /\ reqs[r].op = "upload"
    /\ o \in OutcomesFor(reqs[r])
    /\ LET b == reqs[r].b
           k == reqs[r].k
           al == IF o = "ok" THEN alerts
                 ELSE Append(alerts, UploadFailedAlert(batches[b].files[k], o))
       IN  RunBatch(b, k + 1, Answered(reqs, r, o), al, batches, fileInputValue,
                    EndProgress(r, o, Progress))
    /\ UNCHANGED <<sessionVars, docVars, searchVars, nEvents, filterVars, formVars>>

----------------------------------------------------------------------------
(* Search. *)

\* the values the search input takes in this model
InputValues ==
    { << >>, <<"a">>, <<"a", "b">>, <<"a", "b", "c">>, <<"a", "b", "c", "d">>,
      <<" ", "a", "b", " ">> }

\* String.prototype.trim, Front.js:366
RECURSIVE TrimLeft(_)
TrimLeft(s) == IF s # << >> /\ Head(s) = " " THEN TrimLeft(Tail(s)) ELSE s

RECURSIVE TrimRight(_)
TrimRight(s) ==
    IF s # << >> /\ s[Len(s)] = " " THEN TrimRight(SubSeq(s, 1, Len(s) - 1)) ELSE s

Trim(s) == TrimRight(TrimLeft(s))

\* ClearTimeout that cancels nothing: Front.js:364 left out
ClearTimeoutNothing(ts, id) == ts

\* clearTimeout, Front.js:364
ClearTimeout(ts, id) == {t \in ts : t.id # id}

\* setTimeout, Front.js:365
SetTimeout(ts, id, ms) == ts \cup {[id |-> id, left |-> ms]}

Due(ts) == {t \in ts : t.left = 0}

Max(a, b) == IF a >= b THEN a ELSE b
Min(a, b) == IF a <= b THEN a ELSE b

\* Time passes.  A timer that is due runs before time passes further and before
\* any event that arrives later: the event loop takes its tasks in order.
Tick ==
    /\ Due(timers) = {}
    /\ timers # {} \/ sinceInput < DEBOUNCE_MS
    /\ timers' = {[id |-> t.id, left |-> Max(0, t.left - TickMs)] : t \in timers}
    /\ sinceInput' = Min(sinceInput + TickMs, DEBOUNCE_MS)
    /\ UNCHANGED <<sessionVars, docVars, uploadVars, inputValue, searchTimeout, runs,
                   decisions, dispatchSeq, reqs, alerts, nEvents>>
    /\ UNCHANGED <<filterVars, formVars, progressVars>>

\* Front.js:363-373: the input listener of the search field; the value becomes v
InputEvent(v) ==
    /\ page = "dashboard"
    /\ nEvents.input < MaxInputs
    /\ Due(timers) = {}
    /\ v # inputValue
    /\ nEvents' = [nEvents EXCEPT !.input = @ + 1]
    /\ inputValue' = v
    /\ searchTimeout' = searchTimeout + 1
    /\ timers' = SetTimeout(ClearTimeout(timers, searchTimeout), searchTimeout + 1,
                            DEBOUNCE_MS)
    /\ runs' = IF sinceInput >= DEBOUNCE_MS THEN runs + 1 ELSE runs
    /\ sinceInput' = 0
    /\ UNCHANGED <<sessionVars, docVars, uploadVars, decisions, dispatchSeq, reqs, alerts>>
    /\ UNCHANGED <<filterVars, formVars, progressVars>>

\* SearchTimeoutFires with else in the place of the else if of Front.js:369: a
\* term of one or two characters reverts the view as the empty one does
SearchTimeoutFiresRevertShort(id) ==
    /\ [id |-> id, left |-> 0] \in timers
    /\ timers' = ClearTimeout(timers, id)
    /\ LET searchTerm == Trim(inputValue)
       IN  /\ decisions' = Append(decisions,
                                  [term |-> searchTerm, run |-> runs, waited |-> sinceInput])
           /\ IF Len(searchTerm) >= 3
                THEN /\ reqs' = Append(reqs, Req("search", ApiAuth(accessToken), 0,
                                                 dispatchSeq + 1, searchTerm))
                     /\ dispatchSeq' = dispatchSeq + 1
                     /\ UNCHANGED <<view, viewSrc>>
                ELSE /\ view' = documents /\ viewSrc' = 0
                     /\ UNCHANGED <<reqs, dispatchSeq>>
    /\ UNCHANGED <<sessionVars, documents, modal, saved, uploadVars, inputValue,
                   searchTimeout, sinceInput, runs, alerts, nEvents>>
    /\ UNCHANGED <<filterVars, formVars, progressVars>>

\* Front.js:365-372: the debounce callback, with performSemanticSearch
\* (Front.js:375-377) up to its await
SearchTimeoutFires(id) ==
    /\ [id |-> id, left |-> 0] \in timers
    /\ timers' = ClearTimeout(timers, id)
    /\ LET searchTerm == Trim(inputValue)
       IN  /\ decisions' = Append(decisions,
                                  [term |-> searchTerm, run |-> runs, waited |-> sinceInput])
           /\ IF Len(searchTerm) >= 3
                THEN /\ reqs' = Append(reqs, Req("search", ApiAuth(accessToken), 0,
                                                 dispatchSeq + 1, searchTerm))
                     /\ dispatchSeq' = dispatchSeq + 1
                     /\ UNCHANGED <<view, viewSrc>>
                ELSE /\ IF Len(searchTerm) = 0
                          THEN view' = documents /\ viewSrc' = 0
                          ELSE UNCHANGED <<view, viewSrc>>
                     /\ UNCHANGED <<reqs, dispatchSeq>>
    /\ UNCHANGED <<sessionVars, documents, modal, saved, uploadVars, inputValue,
                   searchTimeout, sinceInput, runs, alerts, nEvents>>
    /\ UNCHANGED <<filterVars, formVars, progressVars>>

\* SearchResponse that keeps the result as the collection
SearchResponseCaching(r, o) ==
    /\ InFlight(r)
    /\ reqs[r].op = "search"
    /\ o \in OutcomesFor(reqs[r])
    /\ reqs' = Answered(reqs, r, o)
    /\ IF o = "ok"
         THEN /\ \E d \in DocLists : view' = d /\ documents' = d
              /\ viewSrc' = r
              /\ UNCHANGED <<currentUser, userVia, accessToken, storedToken, page, alerts>>
         ELSE /\ IF o = "401"
                   THEN logout
                   ELSE UNCHANGED <<currentUser, userVia, accessToken, storedToken,
                                    documents, page>>
              /\ alerts' = Append(alerts, <<"Search failed. Please try again.">>)
              /\ UNCHANGED <<view, viewSrc>>
    /\ UNCHANGED <<loginBtnDisabled, modal, saved, uploadVars, searchVars, nEvents>>
    /\ UNCHANGED <<filterVars, formVars, progressVars>>

\* Front.js:378-383: performSemanticSearch resumed with the response of /search/
SearchResponse(r, o) ==
    /\ InFlight(r)
    /\ reqs[r].op = "search"
    /\ o \in OutcomesFor(reqs[r])
    /\ reqs' = Answered(reqs, r, o)
    /\ IF o = "ok"
         THEN /\ \E d \in DocLists : view' = d
              /\ viewSrc' = r
              /\ UNCHANGED <<currentUser, userVia, accessToken, storedToken, documents,
                             page, alerts>>
         ELSE /\ IF o = "401"
                   THEN logout
                   ELSE UNCHANGED <<currentUser, userVia, accessToken, storedToken,
                                    documents, page>>
              /\ alerts' = Append(alerts, <<"Search failed. Please try again.">>)
              /\ UNCHANGED <<view, viewSrc>>
    /\ UNCHANGED <<loginBtnDisabled, modal, saved, uploadVars, searchVars, nEvents>>
    /\ UNCHANGED <<filterVars, formVars, progressVars>>

----------------------------------------------------------------------------
(* Document detail and download. *)

Shown(docs) == {docs[n] : n \in 1..Len(docs)}

\* Front.js:222, 230, 428-430: a click on a rendered card
DetailClick(docId) ==
    /\ page = "dashboard"
    /\ nEvents.click < MaxClicks
    /\ docId \in Shown(view)
    /\ nEvents' = [nEvents EXCEPT !.click = @ + 1]
    /\ reqs' = Append(reqs, Req("detail", ApiAuth(accessToken), 0, docId, << >>))
    /\ UNCHANGED <<sessionVars, docVars, uploadVars, searchVars, alerts>>
    /\ UNCHANGED <<filterVars, formVars, progressVars>>

\* Front.js:431-460
DetailResponse(r, o) ==
    /\ InFlight(r)
    /\ reqs[r].op = "detail"
    /\ o \in OutcomesFor(reqs[r])
    /\ reqs' = Answered(reqs, r, o)
    /\ IF o = "ok"
         THEN /\ modal' = reqs[r].k
              /\ UNCHANGED <<currentUser, userVia, accessToken, storedToken, documents,
                             page, alerts>>
         ELSE /\ IF o = "401"
                   THEN logout
                   ELSE UNCHANGED <<currentUser, userVia, accessToken, storedToken,
                                    documents, page>>
              /\ alerts' = Append(alerts,
                                  <<"Failed to load document details. Please try again.">>)
              /\ UNCHANGED modal
    /\ UNCHANGED <<loginBtnDisabled, view, viewSrc, saved, uploadVars, searchVars, nEvents>>
    /\ UNCHANGED <<filterVars, formVars, progressVars>>

\* Front.js:231, 463-469: a click on a card's download button
DownloadClick(docId) ==
    /\ page = "dashboard"
    /\ nEvents.click < MaxClicks
    /\ docId \in Shown(view)
    /\ nEvents' = [nEvents EXCEPT !.click = @ + 1]
    /\ reqs' = Append(reqs, Req("download", RawAuth(accessToken), 0, docId, << >>))
    /\ UNCHANGED <<sessionVars, docVars, uploadVars, searchVars, alerts>>
    /\ UNCHANGED <<filterVars, formVars, progressVars>>

\* Front.js:471-488
DownloadResponse(r, o) ==
    /\ InFlight(r)
    /\ reqs[r].op = "download"
    /\ o \in OutcomesFor(reqs[r])
    /\ reqs' = Answered(reqs, r, o)
    /\ IF o = "ok"
         THEN saved' = Append(saved, reqs[r].k) /\ UNCHANGED alerts
         ELSE alerts' = Append(alerts, <<"Download failed. Please try again.">>)
              /\ UNCHANGED saved
    /\ UNCHANGED <<sessionVars, documents, view, viewSrc, modal, uploadVars, searchVars,
                   nEvents>>
    /\ UNCHANGED <<filterVars, formVars, progressVars>>

----------------------------------------------------------------------------
(* Filters. *)

\* the fields of the documents that filterDocuments reads.  Strings are
\* sequences of characters; an absent author is the empty one, and both are
\* falsy at Front.js:255 and 402.  upload_date is in hours.
Doc(id) ==
    CASE id = 1 -> [category |-> <<"H", "R">>, author |-> <<"A", "n", "n">>,
                    upload_date |-> NowStart - 160]
      [] id = 2 -> [category |-> <<"T", "a", "x">>, author |-> << >>,
                    upload_date |-> NowStart - 715]
      [] id = 3 -> [category |-> <<"H", "R">>, author |-> <<"A", "n", "n", "e">>,
                    upload_date |-> NowStart - 5]
      [] OTHER  -> [category |-> <<"T", "a", "x">>, author |-> <<"B", "o">>,
                    upload_date |-> NowStart - 2000]

\* the collections the filters are applied to
FilterDocLists == {<<3, 1, 4, 2>>, <<2, 3>>}

LowerChar(c) ==
    CASE c = "H" -> "h" [] c = "R" -> "r" [] c = "T" -> "t" [] c = "A" -> "a"
      [] c = "B" -> "b" [] OTHER -> c

\* String.prototype.toLowerCase, Front.js:252, 391, 398
ToLowerCase(str) == [n \in 1..Len(str) |-> LowerChar(str[n])]

\* String.prototype.includes, Front.js:402
Includes(str, sub) ==
    \E n \in 0..(Len(str) - Len(sub)) : SubSeq(str, n + 1, n + Len(sub)) = sub

\* Date.prototype.toDateString, Front.js:411: the calendar day of an hour
DateString(t) == t \div 24

\* Front.js:408-420: the test of the date filter
DateTest(dateFilter, docDate, t) ==
    CASE dateFilter = "today" -> DateString(docDate) = DateString(t)
      [] dateFilter = "week"  -> docDate >= t - 7 * 24
      [] dateFilter = "month" -> docDate >= t - 30 * 24
      [] OTHER -> TRUE

\* Front.js:391-422: filteredDocs of filterDocuments for the collection docs,
\* the values sel of the three selects and the clock reading t
filterDocuments(docs, sel, t) ==
    LET categoryFilter == ToLowerCase(sel.category)
        byCategory ==
            IF categoryFilter # << >>
              THEN SelectSeq(docs, LAMBDA d : ToLowerCase(Doc(d).category) = categoryFilter)
              ELSE docs
        byAuthor ==
            IF sel.author # << >>
              THEN SelectSeq(byCategory,
                             LAMBDA d : Doc(d).author # << >>
                                           /\ Includes(Doc(d).author, sel.author))
              ELSE byCategory
    IN  IF sel.date # ""
          THEN SelectSeq(byAuthor, LAMBDA d : DateTest(sel.date, Doc(d).upload_date, t))
          ELSE byAuthor

\* Front.js:249-258: the options updateFilters gives the two selects, and the
\* options of dateFilter
FilterOptions(docs) ==
    [category |-> {<< >>} \cup {ToLowerCase(Doc(d).category) : d \in Shown(docs)},
     author   |-> {<< >>} \cup {Doc(d).author : d \in Shown(docs)},
     date     |-> {"", "today", "week", "month", "all"}]

\* FilterChange that keeps the filtered list as the collection
FilterChangeKeeping(which, v) ==
    /\ page = "dashboard"
    /\ v \in FilterOptions(documents)[which]
    /\ v # filterSel[which]
    /\ filterSel' = [filterSel EXCEPT ![which] = v]
    /\ documents' = filterDocuments(documents, filterSel', now)
    /\ view' = documents'
    /\ viewSrc' = 0
    /\ filterRun' = <<[sel |-> filterSel', docs |-> documents, now |-> now, out |-> view']>>
    /\ UNCHANGED <<sessionVars, modal, saved, uploadVars, searchVars, reqs, alerts,
                   nEvents, now, formVars, progressVars>>

\* Front.js:386-388, 390-425: a change of one of the three selects to its option
\* v, which calls filterDocuments
FilterChange(which, v) ==
    /\ page = "dashboard"
    /\ v \in FilterOptions(documents)[which]
    /\ v # filterSel[which]
    /\ filterSel' = [filterSel EXCEPT ![which] = v]
    /\ view' = filterDocuments(documents, filterSel', now)
    /\ viewSrc' = 0
    /\ filterRun' = <<[sel |-> filterSel', docs |-> documents, now |-> now, out |-> view']>>
    /\ UNCHANGED <<sessionVars, documents, modal, saved, uploadVars, searchVars, reqs,
                   alerts, nEvents, now, formVars, progressVars>>

\* the clock that new Date() reads (Front.js:406) goes on
ClockAdvance ==
    /\ now + ClockStep <= NowStart + MaxHours
    /\ now' = now + ClockStep
    /\ UNCHANGED <<sessionVars, docVars, uploadVars, searchVars, reqs, alerts, nEvents,
                   filterSel, filterRun, formVars, progressVars>>

----------------------------------------------------------------------------
(* Upload progress. *)

\* the values of Math.random() * 30 (Front.js:327) in this model
ProgressSteps == {0, 29}

\* Front.js:326-329: the callback of the progress timer of upload r
ProgressIntervalFires(iv, step) ==
    /\ iv \in intervals
    /\ step \in ProgressSteps
    /\ LET progress == Min(iv.progress + step, 90)
       IN  /\ intervals' = (intervals \ {iv}) \cup {[iv EXCEPT !.progress = progress]}
           /\ progressFill' = progress
    /\ UNCHANGED <<sessionVars, docVars, uploadVars, searchVars, reqs, alerts, nEvents,
                   filterVars, formVars, progressBarShown, hideTimers>>

\* Front.js:346-349: the callback that hides the bar after the upload r
HideTimerFires(r) ==
    /\ r \in hideTimers
    /\ hideTimers' = hideTimers \ {r}
    /\ progressBarShown' = FALSE
    /\ progressFill' = 0
    /\ UNCHANGED <<sessionVars, docVars, uploadVars, searchVars, reqs, alerts, nEvents,
                   filterVars, formVars, intervals>>

----------------------------------------------------------------------------
(* Specifications. *)

Next ==
    \/ DOMContentLoaded
    \/ \E u \in {"", "admin"}, p \in {"", "admin123"} : LoginSubmit(u, p)
    \/ LogoutClick
    \/ ShowSignupClick
    \/ ShowLoginClick
    \/ \E u \in {"", "bob"}, e \in {"", "bob@example.org"}, ro \in {"", "HR"},
          p \in {"", "pw"}, c \in {"", "pw", "pw2"} : SignupSubmit(u, e, ro, p, c)
    \/ \E types \in FileLists, picked \in BOOLEAN : FilesSelected(types, picked)
    \/ \E iv \in intervals, step \in ProgressSteps : ProgressIntervalFires(iv, step)
    \/ \E r \in hideTimers : HideTimerFires(r)
    \/ \E v \in InputValues : InputEvent(v)
    \/ Tick
    \/ \E t \in timers : SearchTimeoutFires(t.id)
    \/ \E which \in {"category", "author", "date"} :
          \E v \in FilterOptions(documents)[which] : FilterChange(which, v)
    \/ ClockAdvance
    \/ \E d \in Shown(view) : DetailClick(d)
    \/ \E d \in Shown(view) : DownloadClick(d)
    \/ \E r \in 1..Len(reqs), o \in Outcomes :
          \/ TokenResponse(r, o)
          \/ SignupResponse(r, o)
          \/ UserInfoResponse(r, o)
          \/ DocumentsResponse(r, o)
          \/ UploadResponse(r, o)
          \/ SearchResponse(r, o)
          \/ DetailResponse(r, o)
          \/ DownloadResponse(r, o)

Spec == Init /\ [][Next]_vars

\* the responses every page with a stored token waits for
Loaded ==
    \/ DOMContentLoaded
    \/ \E r \in 1..Len(reqs), o \in Outcomes :
          \/ UserInfoResponse(r, o)
          \/ DocumentsResponse(r, o)

\* the dashboard of a restored session, both requests of showDashboard answered
\* with a success status, /documents/ with one of lists
LoadedWith(lists) ==
    /\ storedToken = StoredTok
    /\ accessToken = StoredTok
    /\ currentUser = <<UserData>>
    /\ userVia = BearerOf(StoredTok)
    /\ page = "dashboard"
    /\ loginBtnDisabled = FALSE
    /\ documents \in lists
    /\ view = documents
    /\ viewSrc = 1
    /\ modal = Null
    /\ saved = << >>
    /\ reqs = [n \in 1..2 |-> [ShowDashboardReqs(StoredTok)[n] EXCEPT !.st = "done"]]
    /\ alerts = << >>
    /\ batches = << >>
    /\ fileInputValue = ""
    /\ inputValue = << >>
    /\ searchTimeout = 0
    /\ timers = {}
    /\ sinceInput = DEBOUNCE_MS
    /\ runs = 0
    /\ decisions = << >>
    /\ dispatchSeq = 0
    /\ nEvents = [submit |-> 0, click |-> 0, input |-> 0, drop |-> 0]
    /\ filterSel = NoFilter
    /\ now = NowStart
    /\ filterRun = << >>
    /\ signupBtnDisabled = FALSE
    /\ unhandled = << >>
    /\ progressBarShown = NoProgress.shown
    /\ progressFill = NoProgress.fill
    /\ intervals = NoProgress.intervals
    /\ hideTimers = NoProgress.hideTimers

InitLoaded == LoadedWith(DocLists)

\* the upload orchestrator on a loaded dashboard
NextUpload ==
    \/ \E r \in 1..Len(reqs), o \in Outcomes : DocumentsResponse(r, o)
    \/ LogoutClick
    \/ \E types \in FileLists, picked \in BOOLEAN : FilesSelected(types, picked)
    \/ \E r \in 1..Len(reqs), o \in Outcomes : UploadResponse(r, o)

SpecUpload == InitLoaded /\ [][NextUpload]_vars

\* the search dispatcher on a page that restored its session
NextSearch ==
    \/ Loaded
    \/ LogoutClick
    \/ \E v \in InputValues : InputEvent(v)
    \/ Tick
    \/ \E t \in timers : SearchTimeoutFires(t.id)
    \/ \E r \in 1..Len(reqs), o \in Outcomes : SearchResponse(r, o)

SpecSearch == Init /\ [][NextSearch]_vars

\* the session store and the single-document operations
NextSession ==
    \/ Loaded
    \/ \E u \in {"", "admin"}, p \in {"", "admin123"} : LoginSubmit(u, p)
    \/ LogoutClick
    \/ \E d \in Shown(view) : DetailClick(d)
    \/ \E d \in Shown(view) : DownloadClick(d)
    \/ \E r \in 1..Len(reqs), o \in Outcomes :
          \/ TokenResponse(r, o)
          \/ DetailResponse(r, o)
          \/ DownloadResponse(r, o)

SpecSession == Init /\ [][NextSession]_vars

\* the login and signup forms, and the file selection of a restored session
NextForms ==
    \/ DOMContentLoaded
    \/ ShowSignupClick
    \/ ShowLoginClick
    \/ \E u \in {"", "admin"}, p \in {"", "admin123"} : LoginSubmit(u, p)
    \/ \E u \in {"", "bob"}, e \in {"", "bob@example.org"}, ro \in {"", "HR"},
          p \in {"", "pw"}, c \in {"", "pw", "pw2"} : SignupSubmit(u, e, ro, p, c)
    \/ \E types \in FileLists, picked \in BOOLEAN : FilesSelected(types, picked)
    \/ \E r \in 1..Len(reqs), o \in Outcomes :
          \/ TokenResponse(r, o)
          \/ SignupResponse(r, o)
          \/ UploadResponse(r, o)

SpecForms == Init /\ [][NextForms]_vars

\* the document filters on a loaded dashboard
InitFilter == LoadedWith(FilterDocLists)

NextFilter ==
    \/ \E which \in {"category", "author", "date"} :
          \E v \in FilterOptions(documents)[which] : FilterChange(which, v)
    \/ ClockAdvance

SpecFilter == InitFilter /\ [][NextFilter]_vars

\* the progress display of the upload orchestrator on a loaded dashboard
NextProgress ==
    \/ \E types \in FileLists, picked \in BOOLEAN : FilesSelected(types, picked)
    \/ \E r \in 1..Len(reqs), o \in Outcomes : UploadResponse(r, o)
    \/ \E iv \in intervals, step \in ProgressSteps : ProgressIntervalFires(iv, step)
    \/ \E r \in hideTimers : HideTimerFires(r)

SpecProgress == InitLoaded /\ [][NextProgress]_vars

\* the two forms with every request their handlers wait for; every fetch settles
\* (a response with some status, or a rejection), so the handler that awaits it
\* is resumed
SubmitResponses ==
    \E r \in 1..Len(reqs), o \in Outcomes :
        \/ TokenResponse(r, o)
        \/ UserInfoResponse(r, o)
        \/ DocumentsResponse(r, o)
        \/ SignupResponse(r, o)

NextSubmit ==
    \/ DOMContentLoaded
    \/ ShowSignupClick
    \/ ShowLoginClick
    \/ \E u \in {"", "admin"}, p \in {"", "admin123"} : LoginSubmit(u, p)
    \/ \E u \in {"", "bob"}, e \in {"", "bob@example.org"}, ro \in {"", "HR"},
          p \in {"", "pw"}, c \in {"", "pw", "pw2"} : SignupSubmit(u, e, ro, p, c)
    \/ SubmitResponses

SpecSubmit == Init /\ [][NextSubmit]_vars /\ WF_vars(SubmitResponses)

----------------------------------------------------------------------------
(* Properties of the upload orchestrator, checked under SpecUpload. *)

UploadReqs(b, k) ==
    {r \in 1..Len(reqs) : reqs[r].op = "upload" /\ reqs[r].b = b /\ reqs[r].k = k}

Reloads(b) == {r \in 1..Len(reqs) : reqs[r].op = "documents" /\ reqs[r].b = b}

Count(seq, x) == Cardinality({n \in 1..Len(seq) : seq[n] = x})

\* C4: in every reachable state at most one upload request is in flight, for
\* any sequence of drops and selections, a new batch during an earlier one
\* included.
C4_OneUploadInFlight ==
    Cardinality({r \in 1..Len(reqs) : reqs[r].op = "upload" /\ InFlight(r)}) <= 1

\* C5: the response of an upload that arrives under another session than the
\* one the upload was issued under is ignored: the step that takes it changes
\* neither the session, nor the document collection, nor the rendered view,
\* shows nothing and issues no further request.
C5_StaleUploadResponseIgnored ==
    [][\A r \in 1..Len(reqs) :
          (/\ reqs[r].op = "upload"
           /\ reqs[r].st = "inflight"
           /\ reqs'[r].st # "inflight"
           /\ reqs[r].auth # RawAuth(accessToken))
          => /\ Len(reqs') = Len(reqs)
             /\ alerts' = alerts
             /\ UNCHANGED <<accessToken, storedToken, currentUser, documents, view>>]_vars

\* the allow-list C8 names: PDF, DOCX, plain text
C8_AllowList ==
    {"application/pdf",
     "application/vnd.openxmlformats-officedocument.wordprocessingml.document",
     "text/plain"}

\* the rejection messages shown so far that name the file
C8_Rejections(file) ==
    {n \in 1..Len(alerts) :
        /\ Len(alerts[n]) = 2
        /\ alerts[n][1] = "File is not supported. Please upload PDF, DOCX, or TXT files only."
        /\ alerts[n][2] = file.name}

\* C8: in every batch, a file whose media type is not in the allow-list gets
\* no upload request and, once the loop has passed it, exactly one rejection
\* message naming it; and when the batch has ended every allowed file of it
\* has been sent in exactly one upload request, wherever the rejected files
\* stand in the batch.
C8_RejectedReportedOthersUploaded ==
    \A b \in 1..Len(batches) : \A k \in 1..Len(batches[b].files) :
        LET file == batches[b].files[k]
        IN  IF file.type \in C8_AllowList
              THEN /\ Cardinality(UploadReqs(b, k)) <= 1
                   /\ batches[b].st = "done" => Cardinality(UploadReqs(b, k)) = 1
                   /\ C8_Rejections(file) = {}
              ELSE /\ UploadReqs(b, k) = {}
                   /\ Cardinality(C8_Rejections(file)) <= 1
                   /\ batches[b].st = "done" => Cardinality(C8_Rejections(file)) = 1

\* a batch of three files has ended, its second file rejected and reported, its
\* first and third uploaded
C8_Witness ==
    \E b \in 1..Len(batches) :
        /\ batches[b].st = "done"
        /\ Len(batches[b].files) = 3
        /\ batches[b].files[1].type = "application/pdf"
        /\ batches[b].files[2].type = "image/png"
        /\ batches[b].files[3].type = "application/pdf"
        /\ UploadReqs(b, 1) # {} /\ UploadReqs(b, 3) # {}
        /\ C8_Rejections(batches[b].files[2]) # {}

\* the uploads that have failed: answered with a non-success status, or not at all
C9_FailedUploads ==
    {r \in 1..Len(reqs) : reqs[r].op = "upload" /\ reqs[r].st \notin {"inflight", "ok"}}

\* C9: every failed upload is reported once with the name of its file and the
\* reason of the failure, an upload that succeeded is not reported as failed,
\* and when the batch has ended every allowed file after the failed one has
\* been sent in an upload request.
C9_FailureReportedBatchGoesOn ==
    /\ \A r \in C9_FailedUploads :
          LET b == reqs[r].b
              file == batches[b].files[reqs[r].k]
          IN  /\ Count(alerts, <<"Failed to upload", file.name,
                                 UploadErrorMessage(reqs[r].st)>>) = 1
              /\ batches[b].st = "done" =>
                    \A k \in (reqs[r].k + 1)..Len(batches[b].files) :
                        batches[b].files[k].type \in C8_AllowList => UploadReqs(b, k) # {}
    /\ \A r \in 1..Len(reqs) :
          reqs[r].op = "upload" /\ reqs[r].st \in {"inflight", "ok"} =>
             \A n \in 1..Len(alerts) :
                ~(Len(alerts[n]) = 3 /\ alerts[n][2] = batches[reqs[r].b].files[reqs[r].k].name)

\* a batch has ended whose first upload failed in transport and whose second
\* file was uploaded after it
C9_Witness ==
    \E b \in 1..Len(batches) : \E r1 \in UploadReqs(b, 1) : \E r2 \in UploadReqs(b, 2) :
        /\ batches[b].st = "done"
        /\ reqs[r1].st = "neterr"
        /\ reqs[r2].st = "ok"
        /\ r1 < r2

\* C10: a batch has started one reload of the document collection exactly when
\* it has ended, and it has ended only with every one of its uploads answered
\* and every file passed; when every batch has ended, the file input is reset.
C10_OneReloadWhenBatchEnds ==
    /\ \A b \in 1..Len(batches) :
          /\ Cardinality(Reloads(b)) = IF batches[b].st = "done" THEN 1 ELSE 0
          /\ batches[b].st = "done" =>
                /\ batches[b].i = Len(batches[b].files) + 1
                /\ \A r \in 1..Len(reqs) :
                      reqs[r].op = "upload" /\ reqs[r].b = b => reqs[r].st # "inflight"
          /\ batches[b].st # "done" =>
                \E r \in UploadReqs(b, batches[b].i) : reqs[r].st = "inflight"
    /\ (batches # << >> /\ \A b \in 1..Len(batches) : batches[b].st = "done")
          => fileInputValue = ""

\* a batch picked through the file input has ended with its one upload failed
\* and its other file rejected, and has started its reload
C10_Witness ==
    \E b \in 1..Len(batches) : \E r \in UploadReqs(b, 2) :
        /\ batches[b].st = "done"
        /\ batches[b].files[1].type = "image/png"
        /\ reqs[r].st \notin {"inflight", "ok"}
        /\ Cardinality(Reloads(b)) = 1
        /\ fileInputValue = ""

----------------------------------------------------------------------------
(* Properties of the search dispatcher, checked under SpecSearch. *)

SearchReqs == {r \in 1..Len(reqs) : reqs[r].op = "search"}

\* C1: when the result of a later dispatched search is the rendered view, the
\* response of an earlier dispatched search that arrives then does not
\* overwrite it.
C1_LateResponseOfEarlierSearchDiscarded ==
    [][\A r \in SearchReqs :
          (/\ reqs[r].st = "inflight"
           /\ reqs'[r].st # "inflight"
           /\ viewSrc \in SearchReqs
           /\ reqs[viewSrc].k > reqs[r].k)
          => UNCHANGED <<view, viewSrc>>]_vars

\* C2: every run of input events closer than the debounce window gets one
\* decision of the debounce callback, the n-th run the n-th decision, made when
\* the window has elapsed after the run's last event and on the trimmed value
\* the input holds then; no second timer is ever pending, and the searches
\* sent are the decisions of three or more characters, one request each.
C2_OneDecisionPerRun ==
    /\ Cardinality(timers) <= 1
    /\ Len(decisions) = IF timers = {} THEN runs ELSE runs - 1
    /\ \A n \in 1..Len(decisions) :
          /\ decisions[n].run = n
          /\ decisions[n].waited >= DEBOUNCE_MS
    /\ (timers = {} /\ decisions # << >>) =>
          decisions[Len(decisions)].term = Trim(inputValue)
    /\ Cardinality(SearchReqs) =
          Cardinality({n \in 1..Len(decisions) : Len(decisions[n].term) >= 3})
    /\ \A r \in SearchReqs : \E n \in 1..Len(decisions) : decisions[n].term = reqs[r].q

\* three input events within one window of each other, the last leaving "abc",
\* have led to one decision and one search request, for "abc"
C2_Witness ==
    /\ nEvents.input = 3
    /\ runs = 1
    /\ Len(decisions) = 1
    /\ decisions[1].term = <<"a", "b", "c">>
    /\ \E r \in SearchReqs : SearchReqs = {r} /\ reqs[r].q = <<"a", "b", "c">>

\* the step is an expiry of the debounce window
C14_Expiry == Len(decisions') = Len(decisions) + 1

\* C14: when the debounce window expires on a settled query of one or two
\* characters the step changes nothing but the timer: no request, the same
\* view, no alert; when it expires on the empty query the view becomes the
\* cached collection and no request is issued.
C14_ShortQueryNothingEmptyQueryReverts ==
    [][C14_Expiry =>
          LET q == decisions'[Len(decisions')].term
          IN  /\ Len(q) \in {1, 2} =>
                    UNCHANGED <<view, viewSrc, reqs, alerts, documents, sessionVars>>
              /\ Len(q) = 0 =>
                    /\ view' = documents
                    /\ UNCHANGED <<reqs, alerts, documents, sessionVars>>]_vars

\* a search was answered, then the window expired on "ab" and then on the
\* empty query, which left the cached collection of two documents as the view
C14_Witness ==
    /\ Len(decisions) = 3
    /\ decisions[2].term = <<"a", "b">>
    /\ decisions[3].term = << >>
    /\ \E r \in SearchReqs : reqs[r].st # "inflight"
    /\ Len(documents) = 2
    /\ view = documents
    /\ viewSrc = 0

\* C15: the expiry of the debounce window on a settled query of three or more
\* characters appends one request, the search for that query, and no other
\* step appends a search; the step that takes a successful search response
\* renders a list of the backend as the view, whatever the view was, and
\* leaves the cached collection as it is.
C15_OneSearchItsResultReplacesTheViewOnly ==
    [][/\ C14_Expiry /\ Len(decisions'[Len(decisions')].term) >= 3 =>
             /\ Len(reqs') = Len(reqs) + 1
             /\ reqs'[Len(reqs')].op = "search"
             /\ reqs'[Len(reqs')].q = decisions'[Len(decisions')].term
             /\ UNCHANGED <<view, documents>>
       /\ \A r \in (Len(reqs) + 1)..Len(reqs') :
             reqs'[r].op = "search" =>
                /\ C14_Expiry
                /\ r = Len(reqs) + 1
                /\ Len(reqs') = r
       /\ \A r \in 1..Len(reqs) :
             SearchResponse(r, "ok") =>
                /\ view' \in DocLists
                /\ viewSrc' = r
                /\ documents' = documents]_vars

\* the result of a search is the view, it is not the cached collection, and
\* the cached collection still holds its two documents
C15_Witness ==
    /\ viewSrc \in SearchReqs
    /\ Len(documents) = 2
    /\ view # documents

----------------------------------------------------------------------------
(* Properties of the session, checked under SpecSession and SpecUpload. *)

\* C3: whichever authenticated operation receives a 401 response (profile fetch,
\* document list, document detail, search, upload, download), the step that
\* takes the response leaves the token absent in memory and in storage and the
\* user absent, and shows the session-expired message.
C3_Any401EndsSessionAndSaysSo ==
    [][\A r \in 1..Len(reqs) :
          (\/ UserInfoResponse(r, "401")
           \/ DocumentsResponse(r, "401")
           \/ DetailResponse(r, "401")
           \/ SearchResponse(r, "401")
           \/ UploadResponse(r, "401")
           \/ DownloadResponse(r, "401"))
          => /\ accessToken' = Null
             /\ storedToken' = Null
             /\ currentUser' = NoUser
             /\ alerts' = Append(alerts, <<"Session expired. Please login again.">>)]_vars

\* C6: the user profile is populated only while a token is present, and only
\* from a /users/me response to a request made with that token.
C6_UserOnlyWithItsToken ==
    /\ accessToken = Null => currentUser = NoUser
    /\ currentUser # NoUser => userVia = BearerOf(accessToken)

\* C7: every request carries, when it is issued, the token current at that
\* moment as its bearer credential, or no credential when there is no token.
C7_RequestCarriesCurrentTokenOrNothing ==
    [][\A r \in (Len(reqs) + 1)..Len(reqs') :
          reqs'[r].auth = IF accessToken' # Null THEN BearerOf(accessToken') ELSE NoAuth]_vars

\* the part of C7 about stale tokens: no request carries, when it is issued, a
\* token other than the current one
C7_NoRequestCarriesAStaleToken ==
    [][\A r \in (Len(reqs) + 1)..Len(reqs') : \A t \in Tokens :
          reqs'[r].auth = BearerOf(t) => t = accessToken']_vars

\* the session and the collection as logout() leaves them
C11_LoggedOut ==
    /\ accessToken = Null
    /\ storedToken = Null
    /\ currentUser = NoUser
    /\ documents = << >>
    /\ page = "login"

\* the step is one in which logout() runs and showDashboard() does not follow it
C11_LogoutRuns ==
    \/ LogoutClick
    \/ \E r \in 1..Len(reqs) :
          \/ UserInfoResponse(r, "401") /\ reqs[r].k = 0
          \/ DocumentsResponse(r, "401")
          \/ DetailResponse(r, "401")
          \/ SearchResponse(r, "401")
          \/ SignupResponse(r, "401")

\* C11: every step in which logout() runs leaves the token absent in memory and
\* in storage and the user absent, and when it runs on a session that is
\* already logged out it leaves the session, the collection and the page as
\* they are: the same state as one call gives.
C11_LogoutClearsAndIsIdempotent ==
    [][C11_LogoutRuns =>
          /\ accessToken' = Null
          /\ storedToken' = Null
          /\ currentUser' = NoUser
          /\ documents' = << >>
          /\ page' = "login"
          /\ C11_LoggedOut =>
                UNCHANGED <<accessToken, storedToken, currentUser, documents, page>>]_vars

\* logout() has ended a restored session whose two first requests have both
\* been answered
C11_Witness ==
    /\ C11_LoggedOut
    /\ Len(reqs) >= 2
    /\ \A r \in 1..Len(reqs) :
          reqs[r].auth = BearerOf(StoredTok) /\ reqs[r].st # "inflight"

----------------------------------------------------------------------------
(* Properties of the document filters, checked under SpecFilter. *)

\* a step in which filterDocuments is called leaves the collection, the session
\* and the requests as they are
C12_Frame ==
    filterRun' # filterRun =>
        UNCHANGED <<documents, accessToken, storedToken, currentUser, reqs>>

\* C12 as stated: a call of filterDocuments changes neither the collection,
\* nor the session, nor the requests; and whenever the collection and the
\* values of the selects are those of the last call, a call made now renders
\* what that call rendered.
C12_FilterLeavesStateAndRepeats ==
    [][/\ C12_Frame
       /\ \A n \in 1..Len(filterRun') :
             (filterRun'[n].docs = documents' /\ filterRun'[n].sel = filterSel')
             => filterDocuments(documents', filterSel', now') = filterRun'[n].out]_vars

\* C12 amended: the same, the second call rendering what the first rendered
\* when no date range is selected (dateFilter '' or 'all'), whatever the clock
\* reads at the second call.
C12_FilterLeavesStateAndRepeatsWithoutDateRange ==
    [][/\ C12_Frame
       /\ \A n \in 1..Len(filterRun') :
             (/\ filterRun'[n].docs = documents'
              /\ filterRun'[n].sel = filterSel'
              /\ filterSel'.date \in {"", "all"})
             => filterDocuments(documents', filterSel', now') = filterRun'[n].out]_vars

\* the last call filtered by category with no date range, it kept some of the
\* documents and not all, and the clock has gone on since
C12_Witness ==
    \E n \in 1..Len(filterRun) :
        /\ filterRun[n].docs = documents
        /\ filterRun[n].sel = filterSel
        /\ filterSel.category # << >>
        /\ filterSel.date = "all"
        /\ filterRun[n].now < now
        /\ view = filterRun[n].out
        /\ Len(view) > 0
        /\ Len(view) < Len(documents)

\* a document satisfies the constraints C13 names: its category is the chosen
\* one, its author is the chosen one, and its upload date is in the range
C13_Satisfies(d, sel, t) ==
    /\ sel.category # << >> => ToLowerCase(Doc(d).category) = sel.category
    /\ sel.author # << >> => Doc(d).author = sel.author
    /\ sel.date = "today" => Doc(d).upload_date \div 24 = t \div 24
    /\ sel.date = "week" => ~(Doc(d).upload_date < t - 7 * 24)
    /\ sel.date = "month" => ~(Doc(d).upload_date < t - 30 * 24)

\* C13: the view a call of filterDocuments renders is the documents of the
\* collection, in its order, that satisfy the category, the author and the
\* date range chosen, all at once.
C13_ViewIsTheDocumentsThatSatisfyAll ==
    \A n \in 1..Len(filterRun) :
        filterRun[n].out =
            SelectSeq(filterRun[n].docs,
                      LAMBDA d : C13_Satisfies(d, filterRun[n].sel, filterRun[n].now))

\* the part of C13 that holds: the same with the author constraint read as
\* the code applies it, an author that contains the chosen name
C13_ViewIsTheDocumentsThatSatisfyAllBySubstring ==
    \A n \in 1..Len(filterRun) :
        filterRun[n].out =
            SelectSeq(filterRun[n].docs,
                      LAMBDA d :
                        /\ C13_Satisfies(d, [filterRun[n].sel EXCEPT !.author = << >>],
                                         filterRun[n].now)
                        /\ filterRun[n].sel.author # << >> =>
                              /\ Doc(d).author # << >>
                              /\ Includes(Doc(d).author, filterRun[n].sel.author))

\* the part of C17 before the profile fetch: the step that takes a successful
\* /token response sets the token in memory and in storage and issues the
\* profile request with it, still on the login page; the step that takes a
\* rejection leaves the session and shows one message
C17_TokenThenProfileRequest ==
    \A r \in 1..Len(reqs) :
       /\ TokenResponse(r, "ok") =>
             /\ accessToken' = IssuedTok
             /\ storedToken' = IssuedTok
             /\ Len(reqs') = Len(reqs) + 1
             /\ reqs'[Len(reqs')].op = "userinfo"
             /\ reqs'[Len(reqs')].auth = BearerOf(IssuedTok)
             /\ page' = page
       /\ \A o \in Outcomes \ {"ok"} :
             TokenResponse(r, o) =>
                /\ UNCHANGED <<accessToken, storedToken, currentUser, page>>
                /\ Len(reqs') = Len(reqs)
                /\ Len(alerts') = Len(alerts) + 1
                /\ alerts'[Len(alerts')] \in
                      {<<DetailOf(o)>>, <<"Login failed">>,
                       <<"Login failed. Please check your connection and try again.">>}

\* C17: a successful /token response sets the token in memory and in storage
\* before the profile request is issued, with that token; the login handler
\* enters the dashboard only with the user populated from that profile
\* request and the token in place; a rejected login leaves the session and
\* shows the reason of the server or a fallback.
C17_LoginSetsTokenFetchesProfileThenDashboard ==
    [][/\ C17_TokenThenProfileRequest
       /\ \A r \in 1..Len(reqs) : \A o \in Outcomes :
             (UserInfoResponse(r, o) /\ reqs[r].k = 1 /\ page' = "dashboard") =>
                /\ currentUser' = <<UserData>>
                /\ userVia' = BearerOf(IssuedTok)
                /\ accessToken' = IssuedTok]_vars

\* the part of C17 that holds
C17_TokenSetBeforeProfileRequest == [][C17_TokenThenProfileRequest]_vars

----------------------------------------------------------------------------
(* Properties of the forms and of apiCall, checked under SpecForms. *)

\* the four outcomes C16 names, by what the backend did
C16_KindOfOutcome(o) ==
    CASE o = "ok"     -> "success"
      [] o = "401"    -> "AuthError"
      [] o = "neterr" -> "TransportError"
      [] OTHER        -> "RequestError"

\* the outcome a caller of apiCall can tell from what it gets: the success
\* branch, or the message of the error thrown
C16_KindOfMessage(m) ==
    CASE m = <<"Account created successfully! Please login.">> -> "success"
      [] m = <<"Session expired. Please login again.">>        -> "AuthError"
      [] m = <<"Failed to fetch">>                             -> "TransportError"
      [] OTHER                                                 -> "RequestError"

\* C16: every call through apiCall, seen through the signup handler that shows
\* what it gets, ends in the one outcome of the four that belongs to what the
\* backend did: success for a success status; for 401 the session-expired
\* error, the token and the user absent afterwards; for another status the
\* detail of the body, or "Request failed" for a body that is not JSON, the
\* session untouched; for a failed transport an error that is none of these.
C16_ApiCallEndsInOneOfFourOutcomes ==
    [][\A r \in 1..Len(reqs) : \A o \in Outcomes :
          SignupResponse(r, o) =>
             LET m == alerts'[Len(alerts')]
             IN  /\ Len(alerts') = Len(alerts) + 1
                 /\ C16_KindOfMessage(m) = C16_KindOfOutcome(o)
                 /\ o = "detail" => m = <<"Bad request">>
                 /\ o = "badjson" => m = <<"Request failed">>
                 /\ IF o = "401"
                      THEN accessToken' = Null /\ storedToken' = Null /\ currentUser' = NoUser
                      ELSE UNCHANGED <<accessToken, storedToken, currentUser>>]_vars

\* a signup request sent with the token of a login has been answered 401: the
\* session is gone and the session-expired message is shown
C16_Witness ==
    /\ \E r \in 1..Len(reqs) :
          /\ reqs[r].op = "signup"
          /\ reqs[r].auth = BearerOf(IssuedTok)
          /\ reqs[r].st # "inflight"
    /\ accessToken = Null
    /\ alerts # << >>
    /\ alerts[Len(alerts)] = <<"Session expired. Please login again.">>

\* the values of the form fields in this model
C18_Fields == {"", "admin", "admin123", "bob", "bob@example.org", "HR", "pw", "pw2"}

\* no upload request has been issued for a file of an unsupported media type,
\* and the rejection of every such file the loop has passed has been shown
C18_RejectedFilesNotSent ==
    \A b \in 1..Len(batches) : \A k \in 1..Len(batches[b].files) :
        batches[b].files[k].type \notin C8_AllowList =>
           /\ \A r \in 1..Len(reqs) :
                 ~(reqs[r].op = "upload" /\ reqs[r].b = b /\ reqs[r].k = k)
           /\ k < batches[b].i => C8_Rejections(batches[b].files[k]) # {}

\* C18: a submit of the login form with the username or the password missing,
\* and a submit of the signup form with a confirmation that differs from the
\* password or with a field missing, each show one message and issue no
\* request; and no request is ever issued for a file of an unsupported media
\* type, whose rejection is shown.
C18_ValidationFailureIssuesNoRequest ==
    [][/\ \A u, p \in C18_Fields :
             (LoginSubmit(u, p) /\ (u = "" \/ p = "")) =>
                /\ reqs' = reqs
                /\ alerts' = Append(alerts, <<"Please enter username and password">>)
       /\ \A u, e, ro, p, c \in C18_Fields :
             (SignupSubmit(u, e, ro, p, c)
                /\ (p # c \/ u = "" \/ e = "" \/ ro = "" \/ p = "")) =>
                /\ reqs' = reqs
                /\ Len(alerts') = Len(alerts) + 1
                /\ alerts'[Len(alerts')] \in
                      {<<"Passwords do not match">>, <<"Please fill in all fields">>}
       /\ C18_RejectedFilesNotSent']_vars

\* a login submit without a password and a signup submit with a confirmation
\* that differs have each shown their message, and no request exists
C18_Witness ==
    /\ nEvents.submit = 2
    /\ alerts = << <<"Please enter username and password">>, <<"Passwords do not match">> >>
    /\ reqs = << >>

\* the alerts of a step other than the rejections of files
C19_Notifications ==
    Cardinality({n \in (Len(alerts) + 1)..Len(alerts') : Len(alerts'[n]) # 2})

\* the step takes the failure of a request of upload, search or document fetch
C19_FetchFails ==
    \E r \in 1..Len(reqs) : \E o \in Outcomes \ {"ok"} :
        \/ UploadResponse(r, o)
        \/ SearchResponse(r, o)
        \/ DocumentsResponse(r, o)

\* the step takes the failure of the request of a login or of a signup
C19_FormFails ==
    \E r \in 1..Len(reqs) : \E o \in Outcomes \ {"ok"} :
        \/ TokenResponse(r, o)
        \/ SignupResponse(r, o)

\* C19: the step that takes the failure of a request of login, signup, upload,
\* search or document fetch (a non-success status or a failed transport) shows
\* exactly one notification, and no handler ends in an unhandled rejection.
C19_FailureCaughtAndNotifiedOnce ==
    [][(C19_FetchFails \/ C19_FormFails) =>
          /\ C19_Notifications = 1
          /\ unhandled' = unhandled]_vars

\* the part of C19 that holds: upload, search and document fetch
C19_FetchFailureCaughtAndNotifiedOnce ==
    [][C19_FetchFails =>
          /\ C19_Notifications = 1
          /\ unhandled' = unhandled]_vars

----------------------------------------------------------------------------
(* Properties of the progress display, checked under SpecProgress. *)

\* the uploads in flight
C20_InFlight == {r \in 1..Len(reqs) : reqs[r].op = "upload" /\ reqs[r].st = "inflight"}

\* C20: over every step that leaves an upload in flight, the progress shown
\* does not decrease, is at most 90% and stays shown; and the step that takes
\* the successful response of the last upload in flight, with no further
\* upload started, leaves 100% shown.
C20_ProgressMonotoneBelowCapThenFull ==
    [][/\ (\E r \in C20_InFlight : r \in C20_InFlight') =>
             /\ progressFill' >= progressFill
             /\ progressFill' <= 90
             /\ progressBarShown'
       /\ \A r \in C20_InFlight :
             (reqs'[r].st = "ok" /\ C20_InFlight' = {}) =>
                /\ progressFill' = 100
                /\ progressBarShown']_vars

----------------------------------------------------------------------------
(* Properties of the submit buttons, checked under SpecSubmit. *)

\* C21: a login or a signup submission that passed validation (its button was
\* disabled for the request) leads to a state in which that button is enabled
\* again, whatever the outcome of the request.
C21_SubmitEndsWithButtonEnabled ==
    /\ loginBtnDisabled ~> ~loginBtnDisabled
    /\ signupBtnDisabled ~> ~signupBtnDisabled

----------------------------------------------------------------------------
(* Properties of the progress timers, checked under SpecProgress. *)

\* the requests whose progress timer is active
C22_TimerOf == {iv.r : iv \in intervals}

\* C22: every active progress timer belongs to an upload in flight, so that there
\* are never more active timers than uploads in flight.
C22_NoTimerOutlivesItsUpload ==
    /\ C22_TimerOf \subseteq C20_InFlight
    /\ Cardinality(intervals) <= Cardinality(C20_InFlight)

\* What holds instead: the timer of an upload that ended is active only when the
\* fetch was rejected; a response, with whatever status, has cleared it.
C22_TimerClearedByEveryResponse ==
    \A r \in C22_TimerOf : reqs[r].op = "upload" /\ reqs[r].st \in {"inflight", "neterr"}

----------------------------------------------------------------------------
(* Properties of the stored token, checked under SpecSession. *)

\* the steps that write the token: a successful login, logout, and the teardown
\* of apiCall on a 401
C23_TokenOperation ==
    \/ LogoutClick
    \/ \E r \in 1..Len(reqs) :
          \/ TokenResponse(r, "ok")
          \/ UserInfoResponse(r, "401")
          \/ DocumentsResponse(r, "401")
          \/ DetailResponse(r, "401")
          \/ DownloadResponse(r, "401")

\* C23: accessToken and the item 'access_token' of localStorage are equal (both
\* absent, or the same value) before and after every step, from the restore at
\* startup on, and a step that changes either of them is a successful login, a
\* logout or a 401 teardown.
C23_TokenInStepWithStorage ==
    [][/\ accessToken = storedToken
       /\ accessToken' = storedToken'
       /\ (accessToken' # accessToken \/ storedToken' # storedToken)
             => C23_TokenOperation]_vars

\* a login succeeded (its handler asked for the profile) and the session has
\* been torn down since
C23_Witness ==
    /\ accessToken = Null
    /\ storedToken = Null
    /\ \E r \in 1..Len(reqs) : reqs[r].op = "userinfo" /\ reqs[r].k = 1

====
